---- MODULE Spec2Model ----
(***************************************************************************)
(* A model of the facilities of aimsim: Road (roads/roads.py),             *)
(* Intersection (intersections/intersections.py) and Reservation           *)
(* (intersections/reservations.py), run by the four-phase tick loop.       *)
(*                                                                         *)
(* The layout modelled is one approach road "U" with two lanes that ends   *)
(* at the intersection, and two exit roads "D1" and "D2" with one lane     *)
(* each that start at it.  The intersection has one lane per (entry, exit) *)
(* pair.  Lanes, vehicles, managers and the tiling are collaborators whose *)
(* code is outside roads.py / intersections.py / reservations.py; what     *)
(* they do is modelled from the design document and marked so.             *)
(***************************************************************************)
EXTENDS Integers, Sequences, FiniteSets, TLC

\* ------------------------------------------------------------------ bounds
\* Number of ticks the simulation loop is run for.
MaxTicks == 2
\* Number of candidate entry times Tiling.test explores after the current tick.
Lookahead == 3
\* Largest trajectory length and region length given to the Road constructor.
MaxLength == 3
\* Number of lanes whose speed updates one update_speeds call merges.
NumSpeedLanes == 2
\* Largest number of transfers in the buffer a road is handed from outside.
MaxBuffer == 2

\* --------------------------------------------------------------- the layout
Vehicles == {"v1", "v2"}
VehicleSeq == <<"v1", "v2">>
\* VehicleSection, front to back.
Sections == <<"FRONT", "MID", "REAR">>
Roads == {"U", "D1", "D2"}
Facilities == Roads \cup {"I"}
\* Road.lanes of every road, as records of the lane's trajectory endpoints.
RoadLaneIds == {"u1", "u2", "d1", "d2"}
RoadLaneSeq == <<"u1", "u2", "d1", "d2">>
RoadLaneInfo ==
    [u1 |-> [road |-> "U", start_coord |-> "s1", end_coord |-> "a1"],
     u2 |-> [road |-> "U", start_coord |-> "s2", end_coord |-> "a2"],
     d1 |-> [road |-> "D1", start_coord |-> "b1", end_coord |-> "e1"],
     d2 |-> [road |-> "D2", start_coord |-> "b2", end_coord |-> "e2"]]
\* The road lane each vehicle starts on.  v1 is ahead of v2 on u1.
UpstreamRoads == {"U"}
DownstreamRoads == {"D1", "D2"}
\* Intersection.lanes, in tuple order: (start_coord, end_coord).
LaneSeq == << <<"a1", "b1">>, <<"a1", "b2">>, <<"a2", "b1">>, <<"a2", "b2">> >>
LaneKeys == {LaneSeq[i] : i \in 1..Len(LaneSeq)}
NoLane == <<"none", "none">>
Tiles == {"t1", "t2", "t3", "t4"}
\* The tiles an intersection lane's trajectory covers, one set per timestep
\* after entry.
LanePath(l) ==
    CASE l = <<"a1", "b1">> -> << {"t1"}, {"t2"} >>
      [] l = <<"a1", "b2">> -> << {"t1"}, {"t3"} >>
      [] l = <<"a2", "b1">> -> << {"t3"}, {"t2"} >>
      [] l = <<"a2", "b2">> -> << {"t3"}, {"t4"} >>
\* The usage proportion of a deterministic reservation: 1.0.
FullUse == 1

Phases == <<"update_speeds", "step_vehicles", "process_transfers", "handle_logic">>

VARIABLES
    tick,                     \* number of the current tick
    phase,                    \* the phase the loop is in, or "aborted"
    done,                     \* facilities that have run the current phase
    has_reservation,          \* Vehicle.has_reservation
    permission_to_enter_intersection,   \* Vehicle.permission_to_enter_intersection
    next_exit,                \* first element of Vehicle.next_movement(pos)
    road_lanes,               \* RoadLane -> vehicle sections on it
    road_buffer,              \* Road.entering_vehicle_buffer
    lanes,                    \* IntersectionLane -> vehicle sections on it
    entering_vehicle_buffer,  \* Intersection.entering_vehicle_buffer
    queue,                    \* manager: the request queue
    arrival,                  \* manager: vehicle -> tick its request was queued at
    reservations,             \* manager: the committed reservations, by vehicle
    active,                   \* manager: vehicles whose reservation is ACTIVE
    tile_use,                 \* tiling: (timestep, tile) -> proportion used
    start_calls,              \* vehicle -> sections for which start_reservation ran
    finish_calls,             \* vehicle -> number of finish_exiting calls
    handed,                   \* sections handed to a buffer in this tick's step
    pt_trace,                 \* the last Intersection.process_transfers call
    sv_trace,                 \* the last Intersection.step_vehicles call
    link,                     \* Road -> its upstream and downstream attributes
    sp_input,                 \* the updates the lanes' update_speeds return
    sp_call,                  \* the last connect_* or update_speeds call
    ctor                      \* the last call of the Road constructor

sim_vars == <<tick, phase, done, has_reservation,
              permission_to_enter_intersection, next_exit, road_lanes,
              road_buffer, lanes, entering_vehicle_buffer, queue, arrival,
              reservations, active, tile_use, start_calls, finish_calls,
              handed, pt_trace, sv_trace>>

vars == <<sim_vars, link, sp_input, sp_call, ctor>>

\* ----------------------------------------------------------------- helpers
SecIdx(s) == CHOOSE i \in 1..Len(Sections) : Sections[i] = s
VehIdx(v) == CHOOSE i \in 1..Len(VehicleSeq) : VehicleSeq[i] = v
AllSections(v) == {<<v, Sections[i]>> : i \in 1..Len(Sections)}
SectionKey(p) == (VehIdx(p[1]) - 1) * Len(Sections) + SecIdx(p[2])

RECURSIVE SortSections(_)
\* The sections of X front to back, vehicle by vehicle.
SortSections(X) ==
    IF X = {} THEN <<>>
    ELSE LET m == CHOOSE p \in X : \A q \in X : SectionKey(p) <= SectionKey(q)
         IN  <<m>> \o SortSections(X \ {m})

\* VehicleTransfer(vehicle, section, pos)
Transfer(p, pos) == [vehicle |-> p[1], section |-> p[2], pos |-> pos]
TransfersOf(X, pos) ==
    LET s == SortSections(X) IN [i \in 1..Len(s) |-> Transfer(s[i], pos)]

RECURSIVE Concat(_)
Concat(ss) == IF ss = <<>> THEN <<>> ELSE Head(ss) \o Concat(Tail(ss))

\* ----------------------------------------------------- Road.__init__ indices
RoadLanesOf(r) == {l \in RoadLaneIds : RoadLaneInfo[l].road = r}
\* Road.lanes_by_start: start coordinate -> lane.
lanes_by_start(r) ==
    [c \in {RoadLaneInfo[l].start_coord : l \in RoadLanesOf(r)} |->
        CHOOSE l \in RoadLanesOf(r) : RoadLaneInfo[l].start_coord = c]
\* Road.lanes_by_end: end coordinate -> lane.
lanes_by_end(r) ==
    [c \in {RoadLaneInfo[l].end_coord : l \in RoadLanesOf(r)} |->
        CHOOSE l \in RoadLanesOf(r) : RoadLaneInfo[l].end_coord = c]

\* ----------------------------------------------- Intersection.__init__ indices
\* Intersection.upstream_road_by_coord: every end coordinate of an upstream
\* road's lanes -> that road.
upstream_road_by_coord ==
    [c \in UNION {DOMAIN lanes_by_end(r) : r \in UpstreamRoads} |->
        CHOOSE r \in UpstreamRoads : c \in DOMAIN lanes_by_end(r)]
\* Intersection.downstream_road_by_coord: every start coordinate of a
\* downstream road's lanes -> that road.
downstream_road_by_coord ==
    [c \in UNION {DOMAIN lanes_by_start(r) : r \in DownstreamRoads} |->
        CHOOSE r \in DownstreamRoads : c \in DOMAIN lanes_by_start(r)]
\* Intersection.lanes_by_endpoints: (start_coord, end_coord) -> lane.
lanes_by_endpoints == [k \in LaneKeys |-> k]

\* Vehicle.next_movement(pos): the exit coordinate comes first.
next_movement(v, pos) == <<next_exit[v], pos>>

\* ------------------------------------------------------------ the lanes
\* What a lane's step_vehicles may return in one step: any set X of the
\* sections on the lane such that a section leaves only with, or after, the
\* sections ahead of it.  On an intersection lane "ahead" is within one
\* vehicle; on a road lane (byVehicle) it is also a vehicle further ahead.
Ahead(q, p, byVehicle) ==
    \/ q[1] = p[1] /\ SecIdx(q[2]) < SecIdx(p[2])
    \/ byVehicle /\ VehIdx(q[1]) < VehIdx(p[1])
OrderClosed(C, X, byVehicle) ==
    /\ X \subseteq C
    /\ \A p \in X : \A q \in C : Ahead(q, p, byVehicle) => q \in X
\* The sections present on the lanes K of the lane table f, tagged by lane.
Present(f, K) == UNION {{<<l, p>> : p \in f[l]} : l \in K}
OnLane(X, l) == {x[2] : x \in {y \in X : y[1] = l}}
\* The exit roads are longer than any vehicle travels in MaxTicks ticks:
\* their lanes hand nothing on.
RoadLaneEmits(l) == RoadLaneInfo[l].road \in UpstreamRoads
RoadEmissions(r) ==
    {X \in SUBSET Present(road_lanes, {l \in RoadLanesOf(r) : RoadLaneEmits(l)}) :
        \A l \in RoadLanesOf(r) : OrderClosed(road_lanes[l], OnLane(X, l), TRUE)}
IntEmissions ==
    {X \in SUBSET Present(lanes, LaneKeys) :
        \A l \in LaneKeys : OrderClosed(lanes[l], OnLane(X, l), FALSE)}
\* RoadEmitted with the loop over the lanes left after the road's first lane.
RoadEmitted_FirstLaneOnly(r, X) ==
    LET first == CHOOSE i \in 1..Len(RoadLaneSeq) :
                    /\ RoadLaneInfo[RoadLaneSeq[i]].road = r
                    /\ \A j \in 1..(i - 1) : RoadLaneInfo[RoadLaneSeq[j]].road # r
    IN  TransfersOf(OnLane(X, RoadLaneSeq[first]),
                    RoadLaneInfo[RoadLaneSeq[first]].end_coord)
\* The transfers a road's lanes return, lane by lane in Road.lanes order.
RoadEmitted(r, X) ==
    Concat([i \in 1..Len(RoadLaneSeq) |->
        IF RoadLaneInfo[RoadLaneSeq[i]].road = r
        THEN TransfersOf(OnLane(X, RoadLaneSeq[i]),
                         RoadLaneInfo[RoadLaneSeq[i]].end_coord)
        ELSE <<>>])
\* The transfers the intersection's lanes return, in Intersection.lanes order.
IntEmitted(X) ==
    Concat([i \in 1..Len(LaneSeq) |->
        TransfersOf(OnLane(X, LaneSeq[i]), LaneSeq[i][2])])
\* Lane.enter_vehicle_section(transfer): the section is now on the lane.
EnterSection(content, transfer) ==
    content \cup {<<transfer.vehicle, transfer.section>>}

\* ---------------------------------------------------------- the manager
\* IntersectionManager.start_reservation(vehicle): the reservation becomes
\* ACTIVE and its lane is returned.  m carries active and start_calls.
\* A vehicle cannot be double-started: what a second call for a vehicle does
\* is the manager's choice (strict: it raises; otherwise it returns the lane
\* again), and both are modelled.
StartReservationLane(v) == reservations[v].lane
StartReservationRaises(m, v, strict) == strict /\ v \in m.active
StartReservation(m, transfer) ==
    [m EXCEPT !.active = @ \cup {transfer.vehicle},
              !.start_calls[transfer.vehicle] = Append(@, transfer.section)]

\* IntersectionManager.finish_exiting(vehicle): the reservation is COMPLETE
\* and retired; a dependent reservation no longer waits for it.  m carries
\* reservations, active, has_reservation and finish_calls.
Retire(res, v) ==
    LET left == DOMAIN res \ {v}
    IN  [w \in left |-> [res[w] EXCEPT !.dependent_on = @ \ {v}]]
FinishExiting(m, v) ==
    [m EXCEPT !.reservations = Retire(@, v),
              !.active = @ \ {v},
              !.has_reservation[v] = FALSE,
              !.finish_calls[v] = @ + 1]

\* ------------------------------------------- Intersection.step_vehicles
\* IntStepOne with the section test dropped: the manager is told for every
\* transfer.
IntStepOne_FinishAlways(st, transfer) ==
    LET road == downstream_road_by_coord[transfer.pos]
        st1 == [st EXCEPT
                  !.road_buffer[road] = Append(@, transfer),
                  !.trace = Append(@, [op |-> "transfer_vehicle",
                                       target |-> road,
                                       transfer |-> transfer])]
    IN  [FinishExiting(st1, transfer.vehicle) EXCEPT
            !.trace = Append(@, [op |-> "finish_exiting",
                                 target |-> "manager",
                                 transfer |-> transfer])]

\* One pass of the inner loop: hand the transfer to the downstream road at
\* transfer.pos, then tell the manager when it is a REAR section.
\* st carries road_buffer, trace and the manager's fields.
IntStepOne(st, transfer) ==
    LET road == downstream_road_by_coord[transfer.pos]
        st1 == [st EXCEPT
                  !.road_buffer[road] = Append(@, transfer),
                  !.trace = Append(@, [op |-> "transfer_vehicle",
                                       target |-> road,
                                       transfer |-> transfer])]
    IN  IF transfer.section = "REAR"
        THEN [FinishExiting(st1, transfer.vehicle) EXCEPT
                  !.trace = Append(@, [op |-> "finish_exiting",
                                       target |-> "manager",
                                       transfer |-> transfer])]
        ELSE st1

RECURSIVE IntStepLoop(_, _)
IntStepLoop(st, transfers) ==
    IF transfers = <<>> THEN st
    ELSE IntStepLoop(IntStepOne(st, Head(transfers)), Tail(transfers))

\* ---------------------------------------- Intersection.process_transfers
\* ResolveLane with the two tests in the other order.
ResolveLane_PermissionFirst(transfer) ==
    IF permission_to_enter_intersection[transfer.vehicle]
    THEN [via |-> "lanes_by_endpoints",
          lane |-> lanes_by_endpoints[
                     <<transfer.pos,
                       next_movement(transfer.vehicle, transfer.pos)[1]>>]]
    ELSE IF has_reservation[transfer.vehicle]
    THEN [via |-> "start_reservation",
          lane |-> StartReservationLane(transfer.vehicle)]
    ELSE [via |-> "RuntimeError", lane |-> NoLane]

\* The branch taken for a transfer and the lane it yields.
ResolveLane(transfer) ==
    IF has_reservation[transfer.vehicle]
    THEN [via |-> "start_reservation",
          lane |-> StartReservationLane(transfer.vehicle)]
    ELSE IF permission_to_enter_intersection[transfer.vehicle]
    THEN [via |-> "lanes_by_endpoints",
          lane |-> lanes_by_endpoints[
                     <<transfer.pos,
                       next_movement(transfer.vehicle, transfer.pos)[1]>>]]
    ELSE [via |-> "RuntimeError", lane |-> NoLane]

\* IntProcessOne with the final else branch dropping the transfer instead of
\* raising.
IntProcessOne_SilentDrop(st) ==
    LET transfer == st.buf[Len(st.buf)]
        rest == SubSeq(st.buf, 1, Len(st.buf) - 1)
        r == ResolveLane(transfer)
        popped == [st EXCEPT !.buf = rest]
        started == IF r.via = "start_reservation"
                   THEN StartReservation(popped, transfer)
                   ELSE popped
    IN  IF r.via = "RuntimeError"
        THEN popped
        ELSE IF /\ r.via = "start_reservation"
                /\ StartReservationRaises(st, transfer.vehicle, st.strict)
        THEN [started EXCEPT !.result = "ManagerError"]
        ELSE [started EXCEPT
                !.lanes[r.lane] = EnterSection(@, transfer),
                !.entered = Append(@, [transfer |-> transfer,
                                       lane |-> r.lane,
                                       via |-> r.via])]

\* IntProcessOne emptying the buffer before it raises.
IntProcessOne_DrainOnError(st) ==
    LET transfer == st.buf[Len(st.buf)]
        rest == SubSeq(st.buf, 1, Len(st.buf) - 1)
        r == ResolveLane(transfer)
        popped == [st EXCEPT !.buf = rest]
        started == IF r.via = "start_reservation"
                   THEN StartReservation(popped, transfer)
                   ELSE popped
    IN  IF r.via = "RuntimeError"
        THEN [popped EXCEPT !.buf = <<>>, !.result = "RuntimeError"]
        ELSE IF /\ r.via = "start_reservation"
                /\ StartReservationRaises(st, transfer.vehicle, st.strict)
        THEN [started EXCEPT !.result = "ManagerError"]
        ELSE [started EXCEPT
                !.lanes[r.lane] = EnterSection(@, transfer),
                !.entered = Append(@, [transfer |-> transfer,
                                       lane |-> r.lane,
                                       via |-> r.via])]

\* One pass of the while loop: pop the last transfer of the buffer, resolve
\* its lane and enter the section, or raise.  st carries buf, lanes, entered,
\* active, start_calls, strict and result.
IntProcessOne(st) ==
    LET transfer == st.buf[Len(st.buf)]
        rest == SubSeq(st.buf, 1, Len(st.buf) - 1)
        r == ResolveLane(transfer)
        popped == [st EXCEPT !.buf = rest]
        started == IF r.via = "start_reservation"
                   THEN StartReservation(popped, transfer)
                   ELSE popped
    IN  IF r.via = "RuntimeError"
        THEN [popped EXCEPT !.result = "RuntimeError"]
        ELSE IF /\ r.via = "start_reservation"
                /\ StartReservationRaises(st, transfer.vehicle, st.strict)
        THEN [started EXCEPT !.result = "ManagerError"]
        ELSE [started EXCEPT
                !.lanes[r.lane] = EnterSection(@, transfer),
                !.entered = Append(@, [transfer |-> transfer,
                                       lane |-> r.lane,
                                       via |-> r.via])]

\* IntProcessLoop with "if" for "while": one transfer is handled per call.
IntProcessLoop_Once(st) ==
    LET one == IF Len(st.buf) > 0 THEN IntProcessOne(st) ELSE st
    IN  IF one.result # "running" THEN one
        ELSE [one EXCEPT !.buf = <<>>, !.result = "ok"]

RECURSIVE IntProcessLoop_StopAtOne(_)
\* IntProcessLoop with the loop left while one transfer is still buffered.
IntProcessLoop_StopAtOne(st) ==
    IF st.result # "running" THEN st
    ELSE IF Len(st.buf) > 1 THEN IntProcessLoop_StopAtOne(IntProcessOne(st))
    ELSE [st EXCEPT !.buf = <<>>, !.result = "ok"]

RECURSIVE IntProcessLoop(_)
\* The while loop, then Downstream.process_transfers, which leaves the
\* buffer empty.
IntProcessLoop(st) ==
    IF st.result # "running" THEN st
    ELSE IF Len(st.buf) > 0 THEN IntProcessLoop(IntProcessOne(st))
    ELSE [st EXCEPT !.buf = <<>>, !.result = "ok"]

\* ------------------------------------------------ Road.process_transfers
\* RoadProcessOne entering every section into the road's first lane, whatever
\* transfer.pos is.
RoadProcessOne_FirstLane(r, st) ==
    LET transfer == st.buf[Len(st.buf)]
        popped == [st EXCEPT !.buf = SubSeq(st.buf, 1, Len(st.buf) - 1)]
        first == RoadLaneSeq[CHOOSE i \in 1..Len(RoadLaneSeq) :
                    /\ RoadLaneInfo[RoadLaneSeq[i]].road = r
                    /\ \A j \in 1..(i - 1) : RoadLaneInfo[RoadLaneSeq[j]].road # r]
    IN  [popped EXCEPT !.road_lanes[first] = EnterSection(@, transfer)]
\* One pass of the while loop of road r.  st carries buf, road_lanes, result.
RoadProcessOne(r, st) ==
    LET transfer == st.buf[Len(st.buf)]
        popped == [st EXCEPT !.buf = SubSeq(st.buf, 1, Len(st.buf) - 1)]
    IN  IF transfer.pos \notin DOMAIN lanes_by_start(r)
        THEN [popped EXCEPT !.result = "RuntimeError"]
        ELSE [popped EXCEPT
                !.road_lanes[lanes_by_start(r)[transfer.pos]] =
                    EnterSection(@, transfer)]

RECURSIVE RoadProcessLoop(_, _)
RoadProcessLoop(r, st) ==
    IF st.result # "running" THEN st
    ELSE IF Len(st.buf) > 0 THEN RoadProcessLoop(r, RoadProcessOne(r, st))
    ELSE [st EXCEPT !.buf = <<>>, !.result = "ok"]

\* --------------------------------------- IntersectionManager.handle_logic
\* Policy parameter: the largest gap, in timesteps, between the entries of
\* two vehicles of one sequence.
SeqThreshold == 2
TimeSteps == 1..(MaxTicks + Lookahead + 2)
Max(a, b) == IF a >= b THEN a ELSE b
Range(s) == {s[i] : i \in 1..Len(s)}
ApproachLanes == UNION {RoadLanesOf(r) : r \in UpstreamRoads}
\* A vehicle may request while it is wholly on a lane of an approach road.
OnApproach(v) == \E l \in ApproachLanes : AllSections(v) \subseteq road_lanes[l]
ApproachLane(v) ==
    CHOOSE l \in ApproachLanes : AllSections(v) \subseteq road_lanes[l]
RequestKey(v) ==
    Len(VehicleSeq) *
        (CHOOSE i \in 1..Len(RoadLaneSeq) : RoadLaneSeq[i] = ApproachLane(v))
    + VehIdx(v)

RECURSIVE SortRequests(_)
\* Simultaneous arrivals, by lane and then by vehicle id.
SortRequests(A) ==
    IF A = {} THEN <<>>
    ELSE LET m == CHOOSE v \in A : \A w \in A : RequestKey(v) <= RequestKey(w)
         IN  <<m>> \o SortRequests(A \ {m})

\* The vehicles ahead of v on its approach lane, and the one right ahead.
AheadOnLane(v) ==
    {p \in Vehicles : /\ VehIdx(p) < VehIdx(v)
                      /\ \E s \in AllSections(p) : s \in road_lanes[ApproachLane(v)]}
HasPredecessor(v) == AheadOnLane(v) # {}
Predecessor(v) ==
    CHOOSE p \in AheadOnLane(v) : \A q \in AheadOnLane(v) : VehIdx(q) <= VehIdx(p)

\* The lane a request is for.
RequestLane(v) ==
    lanes_by_endpoints[<<RoadLaneInfo[ApproachLane(v)].end_coord,
                         next_movement(v, RoadLaneInfo[ApproachLane(v)].end_coord)[1]>>]
\* The (timestep, tile) pairs a vehicle entering lane l at timestep e uses.
ClaimedTiles(l, e) ==
    UNION {{<<e + k - 1, t>> : t \in LanePath(l)[k]} : k \in 1..Len(LanePath(l))}
\* Feasible checking the tiles of the entry timestep only.
Feasible_EntryOnly(use, l, e) ==
    \A c \in {d \in ClaimedTiles(l, e) : d[1] = e} : use[c] + FullUse <= FullUse
\* Tiling.test's conflict check of one candidate entry time.
Feasible(use, l, e) ==
    \A c \in ClaimedTiles(l, e) : use[c] + FullUse <= FullUse
\* The candidate entry times of v's request: after this tick, within the
\* lookahead, and after the entry of an admitted vehicle right ahead of it.
Candidates(res, v) ==
    LET first == IF HasPredecessor(v) /\ Predecessor(v) \in DOMAIN res
                 THEN Max(tick + 1, res[Predecessor(v)].its_exit.t + 1)
                 ELSE tick + 1
    IN  first..(tick + Lookahead)
\* Tiling.test: the earliest feasible entry time, or 0 when there is none.
TilingTest(use, res, v) ==
    LET ok == {e \in Candidates(res, v) : Feasible(use, RequestLane(v), e)}
    IN  IF ok = {} THEN 0 ELSE CHOOSE e \in ok : \A f \in ok : e <= f
\* The Reservation record of reservations.py for v entering at e.
NewReservation(res, v, e) ==
    LET seq == /\ HasPredecessor(v)
               /\ Predecessor(v) \in DOMAIN res
               /\ e - res[Predecessor(v)].its_exit.t <= SeqThreshold
    IN  [vehicle |-> v,
         res_pos |-> RoadLaneInfo[ApproachLane(v)].end_coord,
         tiles |-> [ts \in {c[1] : c \in ClaimedTiles(RequestLane(v), e)} |->
                      [t \in {c[2] : c \in {d \in ClaimedTiles(RequestLane(v), e) :
                                                d[1] = ts}} |-> FullUse]],
         lane |-> RequestLane(v),
         dependent_on |-> IF seq
                          THEN {Predecessor(v)} \cup res[Predecessor(v)].dependent_on
                          ELSE {},
         dependency |-> "none",
         its_exit |-> [t |-> e]]
\* Tiling.commit: every (tile, timestep, proportion) of the reservation is
\* marked used.
TilingCommit(use, r) ==
    [c \in DOMAIN use |->
        IF c[1] \in DOMAIN r.tiles /\ c[2] \in DOMAIN r.tiles[c[1]]
        THEN use[c] + r.tiles[c[1]][c[2]]
        ELSE use[c]]
\* HandleRequest with the link of a sequence recorded the wrong way round: the
\* new reservation names the vehicle ahead as its dependency, and the vehicle
\* ahead lists the new one in dependent_on.
HandleRequest_ReversedLink(m, v) ==
    LET e == TilingTest(m.tile_use, m.reservations, v)
        r0 == NewReservation(m.reservations, v, e)
        seq == r0.dependent_on # {}
        r == [r0 EXCEPT !.dependent_on = {},
                        !.dependency = IF seq THEN Predecessor(v) ELSE "none"]
        linked == [w \in DOMAIN m.reservations |->
                     IF seq /\ w = Predecessor(v)
                     THEN [m.reservations[w] EXCEPT !.dependent_on = @ \cup {v}]
                     ELSE m.reservations[w]]
    IN  IF e = 0
        THEN [m EXCEPT !.queue = Append(@, v)]
        ELSE [m EXCEPT
                !.reservations = [w \in DOMAIN linked \cup {v} |->
                                    IF w = v THEN r ELSE linked[w]],
                !.tile_use = TilingCommit(@, r),
                !.has_reservation[v] = TRUE]
\* One request: test, then commit and admit, or queue again.  m carries
\* reservations, tile_use, has_reservation and queue (the requests kept).
HandleRequest(m, v) ==
    LET e == TilingTest(m.tile_use, m.reservations, v)
        r == NewReservation(m.reservations, v, e)
        linked == [w \in DOMAIN m.reservations |->
                     IF w \in r.dependent_on /\ m.reservations[w].dependency = "none"
                        /\ w = Predecessor(v)
                     THEN [m.reservations[w] EXCEPT !.dependency = v]
                     ELSE m.reservations[w]]
    IN  IF e = 0
        THEN [m EXCEPT !.queue = Append(@, v)]
        ELSE [m EXCEPT
                !.reservations = [w \in DOMAIN linked \cup {v} |->
                                    IF w = v THEN r ELSE linked[w]],
                !.tile_use = TilingCommit(@, r),
                !.has_reservation[v] = TRUE]

RECURSIVE HandleRequests_LIFO(_, _)
\* HandleRequests taking the newest request first.
HandleRequests_LIFO(m, q) ==
    IF q = <<>> THEN m
    ELSE HandleRequests_LIFO(HandleRequest(m, q[Len(q)]), SubSeq(q, 1, Len(q) - 1))

RECURSIVE HandleRequests(_, _)
\* The queued requests, strictly in arrival order.
HandleRequests(m, q) ==
    IF q = <<>> THEN m
    ELSE HandleRequests(HandleRequest(m, Head(q)), Tail(q))

\* ------------------------------------------------------------ Road.__init__
\* The checks of the constructor, in order: the message of the ValueError
\* raised, or "ok".  a carries the arguments; a.length is trajectory.length,
\* and a.lane_offset_angle is <<>> for None and <<x>> for the angle x.
MaxOf(a, b) == IF a >= b THEN a ELSE b
\* LengthCheckFails with the comparison to the sum of the regions left out.
LengthCheckFails_DummyOnly(a) ==
    /\ a.manager_type = "DummyManager"
    /\ a.length < MaxOf(a.len_entrance_region, a.len_approach_region)
LengthCheckFails(a) ==
    \/ /\ a.manager_type = "DummyManager"
       /\ a.length < MaxOf(a.len_entrance_region, a.len_approach_region)
    \/ a.length < a.len_entrance_region + a.len_approach_region
SumCheckFails(a) ==
    a.len_entrance_region + a.len_approach_region > a.length
\* RoadInit with the sum of the regions never compared to the length.
RoadInit_RegionsNotSummed(a) ==
    IF a.num_lanes < 1 THEN "Must have more than one lane."
    ELSE IF a.num_lanes > 1 /\ a.lane_offset_angle = <<>>
    THEN "Need lane_offset if there's more than one lane."
    ELSE IF /\ a.lane_offset_angle # <<>>
            /\ (a.lane_offset_angle[1] < 0 \/ a.lane_offset_angle[1] >= 360)
    THEN "lane_offset_angle must be between [0,360) deg"
    ELSE IF /\ a.manager_type = "DummyManager"
            /\ a.length < MaxOf(a.len_entrance_region, a.len_approach_region)
    THEN "Road is not long enough for the region lengths specified."
    ELSE IF a.lane_width <= 0 THEN "Need positive lane width."
    ELSE "ok"
RoadInit(a) ==
    IF a.num_lanes < 1 THEN "Must have more than one lane."
    ELSE IF a.num_lanes > 1 /\ a.lane_offset_angle = <<>>
    THEN "Need lane_offset if there's more than one lane."
    ELSE IF /\ a.lane_offset_angle # <<>>
            /\ (a.lane_offset_angle[1] < 0 \/ a.lane_offset_angle[1] >= 360)
    THEN "lane_offset_angle must be between [0,360) deg"
    ELSE IF LengthCheckFails(a)
    THEN "Road is not long enough for the region lengths specified."
    ELSE IF a.lane_width <= 0 THEN "Need positive lane width."
    ELSE IF SumCheckFails(a) THEN "Sum of regions longer than trajectory."
    ELSE "ok"

NoCtor == [args |-> <<>>, result |-> "none"]
RoadArgs ==
    [manager_type : {"DummyManager", "LaneChangeManager"},
     length : 0..MaxLength,
     num_lanes : 0..2,
     lane_width : {0, 4},
     lane_offset_angle : {<<>>, <<-1>>, <<0>>, <<360>>},
     len_entrance_region : -1..MaxLength,
     len_approach_region : -1..MaxLength]

\* Road(trajectory, manager_type, ..., len_entrance_region, len_approach_region)
\* called on the arguments ctor.args.
RoadConstruct ==
    /\ ctor.args # <<>>
    /\ ctor.result = "none"
    /\ ctor' = [ctor EXCEPT !.result = RoadInit(ctor.args)]
    /\ UNCHANGED <<sim_vars, link, sp_input, sp_call>>

\* --------------------------------------------- connect_* and update_speeds
Unset == "unset"
NoCall == [op |-> "none", result |-> [kind |-> "none", value |-> <<>>]]

\* ---------------------------------------------------------- name resolution
\* The names bound at run time in the namespace of a source module: the
\* imports it executes (those under "if TYPE_CHECKING:" are not executed) and
\* the classes it defines.
ReservationsModuleNames ==
    {"annotations", "dataclass", "TYPE_CHECKING", "Dict", "Set", "Optional",
     "List", "Coord", "VehicleTransfer", "Vehicle", "IntersectionLane",
     "ScheduledExit", "Reservation"}
RoadsModuleNames ==
    {"annotations", "abstractmethod", "TYPE_CHECKING", "Type", "Optional",
     "Iterable", "Dict", "Any", "Tuple", "Set", "List", "SHARED", "Vehicle",
     "Trajectory", "BezierTrajectory", "RoadLane", "Coord", "LinkError",
     "VehicleTransfer", "SpeedUpdate", "Configurable", "Facility", "Upstream",
     "Downstream", "LaneChangeManager", "DummyManager", "Road"}
ModuleNames(module) ==
    IF module = "reservations" THEN ReservationsModuleNames ELSE RoadsModuleNames
Builtins == {"hash", "type", "len", "min", "max", "dict", "tuple", "range", "super"}
\* Reading a bare name in a function whose local names are locals: the
\* exception raised, or "none".
NameAccess(module, locals, name) ==
    IF name \in locals \cup ModuleNames(module) \cup Builtins
    THEN "none" ELSE "NameError"

\* ------------------------------------------------------ Reservation.__hash__
\* hash() of a Vehicle, which defines no __eq__: one value per object.
VehicleHash(v) == VehIdx(v)
\* Reservation.__hash__(self): "return hash(vehicle)" reads the bare name
\* vehicle, not the field self.vehicle.
ReservationHash(self) ==
    IF NameAccess("reservations", {"self"}, "vehicle") # "none"
    THEN [kind |-> NameAccess("reservations", {"self"}, "vehicle"), value |-> <<>>]
    ELSE [kind |-> "ok", value |-> <<"hash of the module-level vehicle">>]
\* The Reservation records hashed.
ReservationInputs ==
    [vehicle : Vehicles,
     res_pos : DOMAIN upstream_road_by_coord,
     tiles : {<<>>},
     lane : LaneKeys,
     dependent_on : SUBSET Vehicles,
     dependency : Vehicles \cup {"none"},
     its_exit : [t : 1..2]]
\* hash(reservation), for the record sp_input.
ReservationHashCall ==
    /\ sp_call.op = "none"
    /\ sp_call' = [op |-> "Reservation.__hash__",
                   result |-> ReservationHash(sp_input)]
    /\ UNCHANGED <<sim_vars, link, sp_input, ctor>>

\* ---------------------------------------------------- Intersection.__init__
\* The constructor indexes the roads by their lanes' coordinates and then
\* raises NotImplementedError("TODO"): the statements after the raise, which
\* index the lanes and create the manager, are never run.  a carries the
\* arguments; the result carries the attributes assigned before the exit.
IntersectionInit(a) ==
    LET up == [c \in UNION {DOMAIN lanes_by_end(r) : r \in a.upstream_roads} |->
                 CHOOSE r \in a.upstream_roads : c \in DOMAIN lanes_by_end(r)]
        down == [c \in UNION {DOMAIN lanes_by_start(r) : r \in a.downstream_roads} |->
                   CHOOSE r \in a.downstream_roads : c \in DOMAIN lanes_by_start(r)]
    IN  [kind |-> "NotImplementedError",
         upstream_road_by_coord |-> up,
         downstream_road_by_coord |-> down,
         lanes_by_endpoints |-> Unset,
         manager |-> Unset]
IntersectionArgs ==
    [upstream_roads : SUBSET Roads,
     downstream_roads : SUBSET Roads,
     manager_type : {"FCFSManager", "IntersectionManager"},
     manager_spec : {<<>>}]
\* Intersection(upstream_roads, downstream_roads, connectivity, manager_type,
\* manager_spec) called on the arguments ctor.args.
IntersectionConstruct ==
    /\ ctor.args # <<>>
    /\ ctor.result = "none"
    /\ ctor' = [args |-> ctor.args,
                result |-> IntersectionInit(ctor.args).kind,
                object |-> IntersectionInit(ctor.args)]
    /\ UNCHANGED <<sim_vars, link, sp_input, sp_call>>
\* Reading an attribute that was never assigned raises AttributeError.
AttributeAccess(value) == IF value = Unset THEN "AttributeError" ELSE "none"
\* try: ... except NameError: raise LinkError(...)
ExceptNameError(exc) == IF exc = "NameError" THEN "LinkError" ELSE exc
\* The two checks that open Road.update_speeds: the exception that leaves
\* them, or "none".
LinkCheck(lk) ==
    LET up == ExceptNameError(AttributeAccess(lk.upstream))
    IN  IF up # "none" THEN up
        ELSE ExceptNameError(AttributeAccess(lk.downstream))

\* SpeedUpdate is a tuple (v, a); tuples compare lexicographically.
SpeedUpdates == {<<1, 1>>, <<2, 0>>, <<2, 1>>}
TupleLess(x, y) == x[1] < y[1] \/ (x[1] = y[1] /\ x[2] < y[2])
\* min(x, y)
TupleMin(x, y) == IF TupleLess(y, x) THEN y ELSE x
\* One lane's dict merged into finalized_speed, last lane's update kept.
RoadMergeLane_LastWins(fin, d) ==
    [v \in DOMAIN fin \cup DOMAIN d |->
        IF v \in DOMAIN d THEN d[v] ELSE fin[v]]
\* One lane's dict merged into finalized_speed (the inner for loop).
RoadMergeLane(fin, d) ==
    [v \in DOMAIN fin \cup DOMAIN d |->
        IF v \notin DOMAIN d THEN fin[v]
        ELSE IF v \in DOMAIN fin THEN TupleMin(fin[v], d[v])
        ELSE d[v]]

RECURSIVE RoadMerge(_, _)
RoadMerge(fin, new_speeds) ==
    IF new_speeds = <<>> THEN fin
    ELSE RoadMerge(RoadMergeLane(fin, Head(new_speeds)), Tail(new_speeds))
\* Road.update_speeds on the per-lane updates new_speeds.
RoadUpdateSpeeds(lk, new_speeds) ==
    IF LinkCheck(lk) # "none"
    THEN [kind |-> LinkCheck(lk), value |-> <<>>]
    ELSE [kind |-> "ok", value |-> RoadMerge(<<>>, new_speeds)]

\* dict(update for lane_update in new_speeds for update in lane_update.items()):
\* a later item replaces an earlier one with the same key.
IntMergeLane(fin, d) ==
    [v \in DOMAIN fin \cup DOMAIN d |->
        IF v \in DOMAIN d THEN d[v] ELSE fin[v]]

RECURSIVE IntMerge(_, _)
IntMerge(fin, new_speeds) ==
    IF new_speeds = <<>> THEN fin
    ELSE IntMerge(IntMergeLane(fin, Head(new_speeds)), Tail(new_speeds))
\* Intersection.update_speeds on the per-lane updates new_speeds.
IntUpdateSpeeds(new_speeds) == [kind |-> "ok", value |-> IntMerge(<<>>, new_speeds)]

\* What the lanes' update_speeds may return: a dict per lane.
LaneDicts == UNION {[D -> SpeedUpdates] : D \in SUBSET Vehicles}
LaneUpdateInputs == [1..NumSpeedLanes -> LaneDicts]

\* Road.connect_upstream(upstream)
ConnectUpstream(r, u) ==
    /\ link' = [link EXCEPT ![r].upstream = u]
    /\ sp_call' = [op |-> "connect_upstream",
                   result |-> [kind |-> "ok", value |-> <<>>]]
    /\ UNCHANGED <<sim_vars, sp_input, ctor>>

\* Road.connect_downstream(downstream): the attribute is assigned, then
\* type(downstream) is compared with Intersection, a name roads.py imports
\* under TYPE_CHECKING only; when the name can be read and downstream is the
\* intersection, connect_downstream_intersection is called on every lane.
\* The result's value lists the lanes it was called on.
ConnectDownstream(r, d) ==
    LET exc == NameAccess("roads", {"self", "downstream"}, "Intersection")
        connected == IF exc = "none" /\ d = "I"
                     THEN SelectSeq(RoadLaneSeq,
                                    LAMBDA l : RoadLaneInfo[l].road = r)
                     ELSE <<>>
    IN  /\ link' = [link EXCEPT ![r].downstream = d]
        /\ sp_call' = [op |-> "connect_downstream",
                       result |-> [kind |-> IF exc = "none" THEN "ok" ELSE exc,
                                   value |-> connected]]
        /\ UNCHANGED <<sim_vars, sp_input, ctor>>

\* Road.update_speeds, the lanes returning sp_input.
RoadUpdateSpeedsCall(r) ==
    /\ sp_call' = [op |-> "Road.update_speeds",
                   result |-> RoadUpdateSpeeds(link[r], sp_input)]
    /\ UNCHANGED <<sim_vars, link, sp_input, ctor>>

\* Intersection.update_speeds, the lanes returning sp_input.
IntUpdateSpeedsCall ==
    /\ sp_call' = [op |-> "Intersection.update_speeds",
                   result |-> IntUpdateSpeeds(sp_input)]
    /\ UNCHANGED <<sim_vars, link, sp_input, ctor>>

\* ------------------------------------------------------------ the tick loop
\* Every facility runs a phase before any facility runs the next one.
NextPhase(p) ==
    Phases[(CHOOSE i \in 1..Len(Phases) : Phases[i] = p) + 1]
PhaseComplete(f) == done \cup {f} = Facilities
DoneAfter(f) == IF PhaseComplete(f) THEN {} ELSE done \cup {f}
PhaseAfter(f) ==
    IF ~PhaseComplete(f) THEN phase
    ELSE IF phase # "handle_logic" THEN NextPhase(phase)
    ELSE IF tick < MaxTicks THEN Phases[1] ELSE "finished"
TickAfter(f) ==
    IF PhaseComplete(f) /\ phase = "handle_logic" /\ tick < MaxTicks
    THEN tick + 1 ELSE tick
Turn(f, p) == phase = p /\ f \notin done
Advance(f) ==
    /\ done' = DoneAfter(f)
    /\ phase' = PhaseAfter(f)
    /\ tick' = TickAfter(f)

NoProcessTrace == [start |-> <<>>, entered |-> <<>>, left |-> <<>>, result |-> "none"]
NoStepTrace == [emitted |-> <<>>, trace |-> <<>>]
\* The records of this tick's calls are kept until the tick's last handler.
EndOfTick(f) ==
    /\ handed' = IF PhaseComplete(f) THEN {} ELSE handed
    /\ pt_trace' = IF PhaseComplete(f) THEN NoProcessTrace ELSE pt_trace
    /\ sv_trace' = IF PhaseComplete(f) THEN NoStepTrace ELSE sv_trace

\* What no handler of the tick loop changes.
vehicle_vars == <<permission_to_enter_intersection, next_exit, link, sp_input,
                  sp_call, ctor>>
manager_vars == <<queue, arrival, reservations, active, tile_use, start_calls,
                  finish_calls>>

SimInit ==
    /\ tick = 1
    /\ phase = Phases[1]
    /\ done = {}
    /\ has_reservation = [v \in Vehicles |-> FALSE]
    /\ permission_to_enter_intersection \in {f \in [Vehicles -> BOOLEAN] : ~f["v2"]}
    /\ next_exit \in {f \in [Vehicles -> DOMAIN downstream_road_by_coord] :
                        f["v2"] = "b1"}
    /\ \E l2 \in ApproachLanes :
          road_lanes = [l \in RoadLaneIds |->
                          (IF l = "u1" THEN AllSections("v1") ELSE {})
                          \cup (IF l = l2 THEN AllSections("v2") ELSE {})]
    /\ road_buffer = [r \in Roads |-> <<>>]
    /\ lanes = [k \in LaneKeys |-> {}]
    /\ entering_vehicle_buffer = <<>>
    /\ queue = <<>>
    /\ arrival = [v \in Vehicles |-> 0]
    /\ reservations = <<>>
    /\ active = {}
    /\ tile_use = [c \in TimeSteps \X Tiles |-> 0]
    /\ start_calls = [v \in Vehicles |-> <<>>]
    /\ finish_calls = [v \in Vehicles |-> 0]
    /\ handed = {}
    /\ pt_trace = NoProcessTrace
    /\ sv_trace = NoStepTrace

\* Road.update_speeds and Intersection.update_speeds return the speed updates
\* and change nothing of the facility; Road.update_speeds first checks that
\* the road is wired up.
RoadUpdateSpeedsPhase(r) ==
    /\ Turn(r, "update_speeds")
    /\ IF LinkCheck(link[r]) = "none"
       THEN Advance(r)
       ELSE phase' = "aborted" /\ UNCHANGED <<done, tick>>
    /\ UNCHANGED <<has_reservation, vehicle_vars, road_lanes, road_buffer, lanes,
                   entering_vehicle_buffer, manager_vars, handed, pt_trace, sv_trace>>

IntUpdateSpeedsPhase ==
    /\ Turn("I", "update_speeds")
    /\ Advance("I")
    /\ UNCHANGED <<has_reservation, vehicle_vars, road_lanes, road_buffer, lanes,
                   entering_vehicle_buffer, manager_vars, handed, pt_trace, sv_trace>>

\* Road.step_vehicles: every transfer a lane returns goes to
\* self.downstream.transfer_vehicle, which appends it to the buffer of the
\* downstream object (the intersection, for an approach road; a remover
\* keeps no buffer of the simulation).
RoadStepVehicles(r) ==
    /\ Turn(r, "step_vehicles")
    /\ \E X \in RoadEmissions(r) :
          /\ road_lanes' = [l \in RoadLaneIds |-> road_lanes[l] \ OnLane(X, l)]
          /\ entering_vehicle_buffer' =
                IF link[r].downstream = "I"
                THEN entering_vehicle_buffer \o RoadEmitted(r, X)
                ELSE entering_vehicle_buffer
          /\ handed' = handed \cup {<<link[r].downstream, x[2]>> : x \in X}
    /\ Advance(r)
    /\ UNCHANGED <<has_reservation, vehicle_vars, road_buffer, lanes,
                   manager_vars, pt_trace, sv_trace>>

\* Intersection.step_vehicles
IntStepVehicles ==
    /\ Turn("I", "step_vehicles")
    /\ \E X \in IntEmissions :
          LET st == IntStepLoop([road_buffer |-> road_buffer,
                                 trace |-> <<>>,
                                 reservations |-> reservations,
                                 active |-> active,
                                 has_reservation |-> has_reservation,
                                 finish_calls |-> finish_calls],
                                IntEmitted(X))
          IN  /\ lanes' = [l \in LaneKeys |-> lanes[l] \ OnLane(X, l)]
              /\ road_buffer' = st.road_buffer
              /\ reservations' = st.reservations
              /\ active' = st.active
              /\ has_reservation' = st.has_reservation
              /\ finish_calls' = st.finish_calls
              /\ sv_trace' = [emitted |-> IntEmitted(X), trace |-> st.trace]
              /\ handed' = handed \cup
                    {<<downstream_road_by_coord[x[1][2]], x[2]>> : x \in X}
    /\ Advance("I")
    /\ UNCHANGED <<vehicle_vars, road_lanes, entering_vehicle_buffer, queue,
                   arrival, tile_use, start_calls, pt_trace>>

\* Road.process_transfers; an exception ends the run.
RoadProcessTransfers(r) ==
    /\ Turn(r, "process_transfers")
    /\ LET st == RoadProcessLoop(r, [buf |-> road_buffer[r],
                                     road_lanes |-> road_lanes,
                                     result |-> "running"])
       IN  /\ road_buffer' = [road_buffer EXCEPT ![r] = st.buf]
           /\ road_lanes' = st.road_lanes
           /\ IF st.result = "ok"
              THEN Advance(r)
              ELSE phase' = "aborted" /\ UNCHANGED <<done, tick>>
    /\ UNCHANGED <<has_reservation, vehicle_vars, lanes, entering_vehicle_buffer,
                   manager_vars, handed, pt_trace, sv_trace>>

\* Intersection.process_transfers; an exception ends the run.
IntProcessTransfers ==
    /\ Turn("I", "process_transfers")
    /\ \E strict \in BOOLEAN :
       LET st == IntProcessLoop([buf |-> entering_vehicle_buffer,
                                 lanes |-> lanes,
                                 entered |-> <<>>,
                                 active |-> active,
                                 start_calls |-> start_calls,
                                 strict |-> strict,
                                 result |-> "running"])
       IN  /\ entering_vehicle_buffer' = st.buf
           /\ lanes' = st.lanes
           /\ active' = st.active
           /\ start_calls' = st.start_calls
           /\ pt_trace' = [start |-> entering_vehicle_buffer,
                           entered |-> st.entered,
                           left |-> st.buf,
                           result |-> st.result]
           /\ IF st.result = "ok"
              THEN Advance("I")
              ELSE phase' = "aborted" /\ UNCHANGED <<done, tick>>
    /\ UNCHANGED <<has_reservation, vehicle_vars, road_lanes, road_buffer, queue,
                   arrival, reservations, tile_use, finish_calls, handed,
                   sv_trace>>

\* Road.handle_logic: the DummyManager schedules no lane change.
RoadHandleLogic(r) ==
    /\ Turn(r, "handle_logic")
    /\ Advance(r)
    /\ EndOfTick(r)
    /\ UNCHANGED <<has_reservation, vehicle_vars, road_lanes, road_buffer, lanes,
                   entering_vehicle_buffer, manager_vars>>

\* Intersection.handle_logic: the manager drops the requests of vehicles no
\* longer on the approach, polls the approach lanes for new requests (A, the
\* vehicles that reach the request point this tick) and handles the queue.
IntHandleLogic ==
    /\ Turn("I", "handle_logic")
    /\ \E A \in SUBSET {v \in Vehicles : /\ OnApproach(v)
                                         /\ ~has_reservation[v]
                                         /\ v \notin Range(queue)} :
          LET m == HandleRequests([reservations |-> reservations,
                                   tile_use |-> tile_use,
                                   has_reservation |-> has_reservation,
                                   queue |-> <<>>],
                                  SelectSeq(queue, OnApproach) \o SortRequests(A))
          IN  /\ reservations' = m.reservations
              /\ tile_use' = m.tile_use
              /\ has_reservation' = m.has_reservation
              /\ queue' = m.queue
              /\ arrival' = [v \in Vehicles |-> IF v \in A THEN tick ELSE arrival[v]]
    /\ Advance("I")
    /\ EndOfTick("I")
    /\ UNCHANGED <<vehicle_vars, road_lanes, road_buffer, lanes,
                   entering_vehicle_buffer, active, start_calls, finish_calls>>

\* The tick loop starts on roads that are wired up.
Init ==
    /\ SimInit
    /\ link = [r \in Roads |->
                 IF r \in UpstreamRoads
                 THEN [upstream |-> "spawner", downstream |-> "I"]
                 ELSE [upstream |-> "I", downstream |-> "remover"]]
    /\ sp_input = <<>>
    /\ sp_call = NoCall
    /\ ctor = NoCtor

Next ==
    \/ \E r \in Roads : RoadUpdateSpeedsPhase(r)
    \/ IntUpdateSpeedsPhase
    \/ \E r \in Roads : RoadStepVehicles(r)
    \/ IntStepVehicles
    \/ \E r \in Roads : RoadProcessTransfers(r)
    \/ IntProcessTransfers
    \/ \E r \in Roads : RoadHandleLogic(r)
    \/ IntHandleLogic

Spec == Init /\ [][Next]_vars

\* The facilities at rest: no vehicle, no tick run.
SimIdle ==
    /\ tick = 0
    /\ phase = "finished"
    /\ done = {}
    /\ has_reservation = [v \in Vehicles |-> FALSE]
    /\ permission_to_enter_intersection = [v \in Vehicles |-> FALSE]
    /\ next_exit = [v \in Vehicles |-> "b1"]
    /\ road_lanes = [l \in RoadLaneIds |-> {}]
    /\ road_buffer = [r \in Roads |-> <<>>]
    /\ lanes = [k \in LaneKeys |-> {}]
    /\ entering_vehicle_buffer = <<>>
    /\ queue = <<>>
    /\ arrival = [v \in Vehicles |-> 0]
    /\ reservations = <<>>
    /\ active = {}
    /\ tile_use = [c \in TimeSteps \X Tiles |-> 0]
    /\ start_calls = [v \in Vehicles |-> <<>>]
    /\ finish_calls = [v \in Vehicles |-> 0]
    /\ handed = {}
    /\ pt_trace = NoProcessTrace
    /\ sv_trace = NoStepTrace

\* The Road constructor, about to be called on any arguments.
CtorInit ==
    /\ SimIdle
    /\ link = [r \in Roads |-> [upstream |-> Unset, downstream |-> Unset]]
    /\ sp_input = <<>>
    /\ sp_call = NoCall
    /\ ctor \in [args : RoadArgs, result : {"none"}]
CtorNext == RoadConstruct
SpecCtor == CtorInit /\ [][CtorNext]_vars

\* The buffers a road may be handed by its upstream object: up to MaxBuffer
\* transfers of different sections, at any lane coordinate of the layout.
RoadCoords == {RoadLaneInfo[l].start_coord : l \in RoadLaneIds}
BufferInputs ==
    UNION {{b \in [1..n -> [vehicle : Vehicles,
                            section : Range(Sections),
                            pos : RoadCoords]] :
              \A i, j \in 1..n :
                 i # j => <<b[i].vehicle, b[i].section>>
                            # <<b[j].vehicle, b[j].section>>} : n \in 0..MaxBuffer}
\* The transfer phase of a tick in which one road was handed a buffer; the
\* intersection has already processed its own.
TransfersInit ==
    /\ tick = 1
    /\ phase = "process_transfers"
    /\ done = {"I"}
    /\ has_reservation = [v \in Vehicles |-> FALSE]
    /\ permission_to_enter_intersection = [v \in Vehicles |-> FALSE]
    /\ next_exit = [v \in Vehicles |-> "b1"]
    /\ road_lanes = [l \in RoadLaneIds |-> {}]
    /\ \E r \in Roads : \E b \in BufferInputs :
          road_buffer = [x \in Roads |-> IF x = r THEN b ELSE <<>>]
    /\ lanes = [k \in LaneKeys |-> {}]
    /\ entering_vehicle_buffer = <<>>
    /\ queue = <<>>
    /\ arrival = [v \in Vehicles |-> 0]
    /\ reservations = <<>>
    /\ active = {}
    /\ tile_use = [c \in TimeSteps \X Tiles |-> 0]
    /\ start_calls = [v \in Vehicles |-> <<>>]
    /\ finish_calls = [v \in Vehicles |-> 0]
    /\ handed = {}
    /\ pt_trace = NoProcessTrace
    /\ sv_trace = NoStepTrace
    /\ link = [r \in Roads |->
                 IF r \in UpstreamRoads
                 THEN [upstream |-> "spawner", downstream |-> "I"]
                 ELSE [upstream |-> "I", downstream |-> "remover"]]
    /\ sp_input = <<>>
    /\ sp_call = NoCall
    /\ ctor = NoCtor
TransfersNext == \E r \in Roads : RoadProcessTransfers(r)
SpecRoadTransfers == TransfersInit /\ [][TransfersNext]_vars

\* The Intersection constructor, about to be called on any roads.
IntCtorInit ==
    /\ SimIdle
    /\ link = [r \in Roads |-> [upstream |-> Unset, downstream |-> Unset]]
    /\ sp_input = <<>>
    /\ sp_call = NoCall
    /\ ctor \in [args : IntersectionArgs, result : {"none"}]
IntCtorNext == IntersectionConstruct
SpecIntCtor == IntCtorInit /\ [][IntCtorNext]_vars

\* A Reservation record, about to be hashed.
HashInit ==
    /\ SimIdle
    /\ link = [r \in Roads |-> [upstream |-> Unset, downstream |-> Unset]]
    /\ sp_input \in ReservationInputs
    /\ sp_call = NoCall
    /\ ctor = NoCtor
HashNext == ReservationHashCall
SpecHash == HashInit /\ [][HashNext]_vars

\* The approach road, freshly constructed, being wired up and asked for its
\* speed updates; the intersection asked for its own.
SpeedsInit ==
    /\ SimIdle
    /\ link = [r \in Roads |-> [upstream |-> Unset, downstream |-> Unset]]
    /\ sp_input \in LaneUpdateInputs
    /\ sp_call = NoCall
    /\ ctor = NoCtor
SpeedsNext ==
    \/ ConnectUpstream("U", "spawner")
    \/ \E d \in {"I", "remover"} : ConnectDownstream("U", d)
    \/ RoadUpdateSpeedsCall("U")
    \/ IntUpdateSpeedsCall
SpecSpeeds == SpeedsInit /\ [][SpeedsNext]_vars

\* ===================================================================== claims
Neither(v) == ~has_reservation[v] /\ ~permission_to_enter_intersection[v]
InProcessPhase == phase \in {"process_transfers", "aborted"}
ProcessCalled == InProcessPhase /\ pt_trace.result # "none"

\* C1: a call of Intersection.process_transfers whose buffer holds a transfer
\* of a vehicle with neither has_reservation nor permission raises: it never
\* returns normally, and no section of such a vehicle is entered into a lane,
\* whatever else the buffer holds.
C1_FatalOnMissingPermission ==
    (ProcessCalled /\ \E i \in DOMAIN pt_trace.start :
                         Neither(pt_trace.start[i].vehicle))
    => /\ pt_trace.result \in {"RuntimeError", "ManagerError"}
       /\ phase = "aborted"
       /\ \A i \in DOMAIN pt_trace.entered :
             ~Neither(pt_trace.entered[i].transfer.vehicle)
\* A call that raised on a buffer holding a vehicle with neither flag beside
\* a section of a vehicle that may enter.
C1_Witness ==
    /\ ProcessCalled
    /\ pt_trace.result = "RuntimeError"
    /\ \E i, j \in DOMAIN pt_trace.start :
          /\ Neither(pt_trace.start[i].vehicle)
          /\ ~Neither(pt_trace.start[j].vehicle)

RECURSIVE SumOver(_, _)
SumOver(S, f) ==
    IF S = {} THEN 0
    ELSE LET x == CHOOSE y \in S : TRUE IN f[x] + SumOver(S \ {x}, f)
\* The proportion of (timestep, tile) c that reservation r claims.
Claimed(r, c) ==
    IF c[1] \in DOMAIN r.tiles /\ c[2] \in DOMAIN r.tiles[c[1]]
    THEN r.tiles[c[1]][c[2]] ELSE 0
\* C2: for every (tile, timestep) the proportions recorded in the tiles
\* mappings of the committed reservations sum to at most 1.0.
C2_Exclusivity ==
    \A c \in TimeSteps \X Tiles :
        SumOver(DOMAIN reservations,
                [v \in DOMAIN reservations |-> Claimed(reservations[v], c)])
            <= FullUse
\* Two committed reservations that use one tile, at different timesteps,
\* the later vehicle entering later than the first candidate entry time.
C2_Witness ==
    \E v, w \in DOMAIN reservations : \E t \in Tiles : \E a, b \in TimeSteps :
        /\ v # w /\ a # b
        /\ Claimed(reservations[v], <<a, t>>) = FullUse
        /\ Claimed(reservations[w], <<b, t>>) = FullUse
        /\ reservations[w].its_exit.t > reservations[v].its_exit.t

\* C3: every section Intersection.process_transfers enters goes to the lane
\* start_reservation returned when the vehicle has a reservation (also when it
\* has permission too), else to lanes_by_endpoints[(pos, next_movement[0])],
\* and it is on that lane and on no other.
C3_LaneResolution ==
    ProcessCalled =>
        \A i \in DOMAIN pt_trace.entered :
            LET e == pt_trace.entered[i]
                v == e.transfer.vehicle
            IN  /\ IF has_reservation[v]
                   THEN /\ e.via = "start_reservation"
                        /\ e.lane = reservations[v].lane
                        /\ e.transfer.section \in Range(start_calls[v])
                   ELSE /\ permission_to_enter_intersection[v]
                        /\ e.via = "lanes_by_endpoints"
                        /\ e.lane = <<e.transfer.pos, next_exit[v]>>
                /\ \A l \in LaneKeys :
                      (<<v, e.transfer.section>> \in lanes[l]) <=> (l = e.lane)
\* A section of a vehicle holding both a reservation and permission was
\* entered.
C3_Witness ==
    /\ ProcessCalled
    /\ \E i \in DOMAIN pt_trace.entered :
          LET v == pt_trace.entered[i].transfer.vehicle
          IN  has_reservation[v] /\ permission_to_enter_intersection[v]

IsTransferEvent(e) == e.op = "transfer_vehicle"
\* C4: Intersection.step_vehicles hands every transfer its lanes emit to the
\* downstream road that has a lane starting at transfer.pos, and calls
\* finish_exiting exactly once for each REAR transfer, right after handing
\* it on, and for no other transfer.
C4_StepVehicles ==
    LET tr == sv_trace.trace
        em == sv_trace.emitted
        xf == SelectSeq(tr, IsTransferEvent)
    IN  /\ Len(xf) = Len(em)
        /\ \A i \in DOMAIN xf :
              /\ xf[i].transfer = em[i]
              /\ xf[i].target \in DownstreamRoads
              /\ em[i].pos \in DOMAIN lanes_by_start(xf[i].target)
              /\ phase = "step_vehicles"
                 => em[i] \in Range(road_buffer[xf[i].target])
        /\ \A i \in DOMAIN tr :
              /\ tr[i].op = "finish_exiting"
                 => /\ i > 1
                    /\ tr[i - 1].op = "transfer_vehicle"
                    /\ tr[i - 1].transfer = tr[i].transfer
                    /\ tr[i].transfer.section = "REAR"
              /\ (tr[i].op = "transfer_vehicle" /\ tr[i].transfer.section = "REAR")
                 => /\ i < Len(tr)
                    /\ tr[i + 1].op = "finish_exiting"
                    /\ tr[i + 1].transfer = tr[i].transfer
\* A step in which a REAR section and another section left the intersection.
C4_Witness ==
    \E i, j \in DOMAIN sv_trace.emitted :
        /\ sv_trace.emitted[i].section = "REAR"
        /\ sv_trace.emitted[j].section # "REAR"
        /\ \E k \in DOMAIN sv_trace.trace : sv_trace.trace[k].op = "finish_exiting"

\* C5: start_reservation is called at most once per vehicle, and only for
\* its FRONT section.
C5_StartedOnceAtFront ==
    \A v \in Vehicles :
        /\ Len(start_calls[v]) <= 1
        /\ \A i \in DOMAIN start_calls[v] : start_calls[v][i] = "FRONT"

\* The sections handed to facility f in this tick's step are on a lane of f.
OnALaneOf(f, p) ==
    IF f = "I" THEN \E l \in LaneKeys : p \in lanes[l]
    ELSE \E l \in RoadLanesOf(f) : p \in road_lanes[l]
\* C9: when a handle_logic of tick t runs, every entering buffer is empty and
\* every section handed over in the step phase of tick t is on a lane of the
\* facility it was handed to, whatever the order of the facilities.
C9_TransfersBeforeLogic ==
    phase = "handle_logic"
    => /\ entering_vehicle_buffer = <<>>
       /\ \A r \in Roads : road_buffer[r] = <<>>
       /\ \A h \in handed : OnALaneOf(h[1], h[2])
\* A logic phase after a step that handed sections to the intersection and
\* to an exit road.
C9_Witness ==
    /\ phase = "handle_logic"
    /\ \E h, g \in handed : h[1] = "I" /\ g[1] \in DownstreamRoads
    /\ Cardinality(handed) >= 3

\* C6: the Road constructor fails whenever the entrance and approach regions
\* are positive and sum to more than trajectory.length, for any manager type
\* and any other arguments.
C6_RegionSumRejected ==
    (/\ ctor.result # "none"
     /\ ctor.args.len_entrance_region > 0
     /\ ctor.args.len_approach_region > 0
     /\ ctor.args.len_entrance_region + ctor.args.len_approach_region
            > ctor.args.length)
    => ctor.result # "ok"
\* A call with valid lanes, each region no longer than the trajectory, and
\* their sum longer: only the sum of the regions is at fault.
C6_Witness ==
    /\ ctor.result # "none"
    /\ ctor.args.num_lanes = 1
    /\ ctor.args.lane_width > 0
    /\ ctor.args.lane_offset_angle = <<>>
    /\ ctor.args.len_entrance_region > 0
    /\ ctor.args.len_approach_region > 0
    /\ MaxOf(ctor.args.len_entrance_region, ctor.args.len_approach_region)
          <= ctor.args.length
    /\ ctor.args.len_entrance_region + ctor.args.len_approach_region
          > ctor.args.length
    /\ ctor.result = "Road is not long enough for the region lengths specified."

\* The updates the lanes of input ns give for vehicle v.
UpdatesFor(ns, v) == {ns[i][v] : i \in {j \in DOMAIN ns : v \in DOMAIN ns[j]}}
\* res holds, for each vehicle of some lane's update, the least of its updates.
SlowestOfEach(ns, res) ==
    /\ DOMAIN res = UNION {DOMAIN ns[i] : i \in DOMAIN ns}
    /\ \A v \in DOMAIN res :
          /\ res[v] \in UpdatesFor(ns, v)
          /\ \A x \in UpdatesFor(ns, v) : ~TupleLess(x, res[v])
Reordered(ns, p) == [i \in DOMAIN ns |-> ns[p[i]]]

\* C7: Intersection.update_speeds gives a vehicle that is in the updates of
\* two lanes the slower of the two, whatever the order of the lanes.
C7_IntersectionKeepsSlowest ==
    sp_call.op = "Intersection.update_speeds"
    => /\ SlowestOfEach(sp_input, sp_call.result.value)
       /\ \A p \in Permutations(DOMAIN sp_input) :
             IntUpdateSpeeds(Reordered(sp_input, p)).value
                = sp_call.result.value

\* C8: Road.update_speeds returns one entry per vehicle of some lane's update:
\* that lane's update when there is one, the least of them when there are
\* several; the result is the same for every order of the lanes.
C8_RoadKeepsSlowest ==
    (sp_call.op = "Road.update_speeds" /\ sp_call.result.kind = "ok")
    => /\ SlowestOfEach(sp_input, sp_call.result.value)
       /\ \A p \in Permutations(DOMAIN sp_input) :
             RoadUpdateSpeeds(link["U"], Reordered(sp_input, p)).value
                = sp_call.result.value
\* A call on updates in which one vehicle is in two lanes, the later lane
\* giving the larger update, and another vehicle is in one lane.
C8_Witness ==
    /\ sp_call.op = "Road.update_speeds"
    /\ sp_call.result.kind = "ok"
    /\ \E v, w \in Vehicles :
          /\ v # w
          /\ Cardinality(UpdatesFor(sp_input, v)) = 2
          /\ v \in DOMAIN sp_input[NumSpeedLanes]
          /\ sp_call.result.value[v] # sp_input[NumSpeedLanes][v]
          /\ Cardinality({i \in DOMAIN sp_input :
                            w \in DOMAIN sp_input[i]}) = 1

\* C10: Road.update_speeds on a road whose upstream or downstream was never
\* connected fails with LinkError and returns no speed update.
C10_UnlinkedRaisesLinkError ==
    (/\ sp_call.op = "Road.update_speeds"
     /\ (link["U"].upstream = Unset \/ link["U"].downstream = Unset))
    => /\ sp_call.result.kind = "LinkError"
       /\ sp_call.result.value = <<>>

\* The requests a handle_logic step tests, in arrival order: those still
\* queued, then the requests that arrive in this tick.
Arrivals == {v \in Vehicles : arrival'[v] # arrival[v]}
Tested == SelectSeq(queue, OnApproach) \o SortRequests(Arrivals)
ManagerNow == [reservations |-> reservations, tile_use |-> tile_use,
               has_reservation |-> has_reservation, queue |-> <<>>]
\* The outcome of v's request in res: the entry time granted, 0 when rejected.
Outcome(res, v) == IF v \in DOMAIN res THEN res[v].its_exit.t ELSE 0
Without(q, w) == SelectSeq(q, LAMBDA x : x # w)
LogicStep ==
    /\ Turn("I", "handle_logic")
    /\ (arrival' # arrival \/ reservations' # reservations \/ queue' # queue)
SharedTiles(r1, r2) ==
    {c \in TimeSteps \X Tiles : Claimed(r1, c) > 0 /\ Claimed(r2, c) > 0}

C12_DependencyOrdering ==
    \A v \in DOMAIN reservations :
        LET d == reservations[v].dependency
        IN  (/\ d \in DOMAIN reservations
             /\ v \in reservations[d].dependent_on)
            => reservations[d].its_exit.t >= reservations[v].its_exit.t
\* A reservation with a dependent reservation that lists it.
C12_Witness ==
    \E v \in DOMAIN reservations :
        /\ reservations[v].dependency \in DOMAIN reservations
        /\ v \in reservations[reservations[v].dependency].dependent_on
        /\ reservations[reservations[v].dependency].its_exit.t
              > reservations[v].its_exit.t

\* C13: hashing a Reservation succeeds and gives the hash of its vehicle, so
\* that the records of one vehicle hash alike.
C13_HashIsVehicleHash ==
    sp_call.op = "Reservation.__hash__"
    => /\ sp_call.result.kind = "ok"
       /\ sp_call.result.value = <<VehicleHash(sp_input.vehicle)>>

\* Arguments that are fully resolved: the approach roads and the exit roads
\* are given, and no road is both.
Resolved(a) ==
    /\ a.upstream_roads # {} /\ a.downstream_roads # {}
    /\ a.upstream_roads \cap a.downstream_roads = {}
\* C14: constructing an Intersection from fully resolved arguments succeeds,
\* with the lanes indexed in lanes_by_endpoints and a manager created.
C14_ConstructionSucceeds ==
    (ctor.result # "none" /\ Resolved(ctor.args))
    => /\ ctor.result = "ok"
       /\ ctor.object.lanes_by_endpoints # Unset
       /\ ctor.object.manager # Unset

\* C15: finish_exiting is called for a vehicle only after start_reservation
\* was called for it, also for a vehicle that entered on permission alone.
C15_FinishAfterStart ==
    \A v \in Vehicles : finish_calls[v] > 0 => start_calls[v] # <<>>

\* A step of Intersection.process_transfers that raises RuntimeError.
ProcessRaises ==
    /\ Turn("I", "process_transfers")
    /\ pt_trace'.result = "RuntimeError"
OnNoLaneAfter(transfer) ==
    \A l \in LaneKeys : <<transfer.vehicle, transfer.section>> \notin lanes'[l]
\* C16: when Intersection.process_transfers raises for a transfer of a
\* vehicle with neither flag, the run is aborted, that transfer's section is
\* on no lane, start_reservation was not called for its vehicle, and the
\* transfers before it in the buffer are still in the buffer, in order, and on
\* no lane.
C16_AbortLeavesRestUntouched ==
    [][ProcessRaises =>
        \E k \in DOMAIN entering_vehicle_buffer :
            /\ Neither(entering_vehicle_buffer[k].vehicle)
            /\ phase' = "aborted"
            /\ OnNoLaneAfter(entering_vehicle_buffer[k])
            /\ start_calls'[entering_vehicle_buffer[k].vehicle]
                  = start_calls[entering_vehicle_buffer[k].vehicle]
            /\ entering_vehicle_buffer' = SubSeq(entering_vehicle_buffer, 1, k - 1)
            /\ \A i \in 1..(k - 1) : OnNoLaneAfter(entering_vehicle_buffer[i])]_vars
\* A call that raised after it had entered a section, with transfers left
\* in the buffer.
C16_Witness ==
    /\ phase = "aborted"
    /\ pt_trace.result = "RuntimeError"
    /\ pt_trace.entered # <<>>
    /\ pt_trace.left # <<>>
    /\ entering_vehicle_buffer = pt_trace.left

\* C17: after a normal return of Intersection.process_transfers the buffer is
\* empty, and every transfer the buffer held when the call began was entered
\* once, and its section is on one lane.
C17_NormalReturnConserves ==
    pt_trace.result = "ok"
    => /\ pt_trace.left = <<>>
       /\ entering_vehicle_buffer = <<>>
       /\ Len(pt_trace.entered) = Len(pt_trace.start)
       /\ \A i \in DOMAIN pt_trace.start :
             /\ Cardinality({j \in DOMAIN pt_trace.entered :
                    pt_trace.entered[j].transfer = pt_trace.start[i]}) = 1
             /\ Cardinality({l \in LaneKeys :
                    <<pt_trace.start[i].vehicle, pt_trace.start[i].section>>
                        \in lanes[l]}) = 1
\* A normal return of a call that entered sections into two lanes, one for a
\* reservation and one on permission.
C17_Witness ==
    /\ pt_trace.result = "ok"
    /\ \E i, j \in DOMAIN pt_trace.entered :
          /\ pt_trace.entered[i].lane # pt_trace.entered[j].lane
          /\ pt_trace.entered[i].via = "start_reservation"
          /\ pt_trace.entered[j].via = "lanes_by_endpoints"

\* A step of Road.process_transfers of road r on a buffer that is not empty.
RoadProcessStep(r) ==
    /\ Turn(r, "process_transfers")
    /\ road_buffer[r] # <<>>
    /\ road_buffer'[r] # road_buffer[r]
\* The lanes of road r that start at coordinate pos.
StartsAt(r, pos) ==
    {l \in RoadLaneIds : RoadLaneInfo[l].road = r /\ RoadLaneInfo[l].start_coord = pos}
\* After the step the transfer's section is on the lane of r that starts at
\* its pos and on no other lane; or on no lane.
EnteredAtStart(r, transfer) ==
    /\ StartsAt(r, transfer.pos) # {}
    /\ \A l \in RoadLaneIds :
          (<<transfer.vehicle, transfer.section>> \in road_lanes'[l])
             <=> (l \in StartsAt(r, transfer.pos))
OnNoRoadLaneAfter(transfer) ==
    \A l \in RoadLaneIds : <<transfer.vehicle, transfer.section>> \notin road_lanes'[l]
\* C18: Road.process_transfers enters each transfer whose pos is the start of
\* a lane of the road into that lane and no other; at the first transfer it
\* pops whose pos is not the start of a lane of the road it raises, without
\* entering that transfer; when it returns normally the buffer is empty.
C18_RoadProcessTransfers ==
    [][\A r \in Roads : RoadProcessStep(r) =>
        LET buf == road_buffer[r]
            bad == {i \in DOMAIN buf : StartsAt(r, buf[i].pos) = {}}
        IN  IF bad = {}
            THEN /\ phase' # "aborted"
                 /\ road_buffer'[r] = <<>>
                 /\ \A i \in DOMAIN buf : EnteredAtStart(r, buf[i])
            ELSE LET k == CHOOSE i \in bad : \A j \in bad : j <= i
                 IN  /\ phase' = "aborted"
                     /\ OnNoRoadLaneAfter(buf[k])
                     /\ \A i \in (k + 1)..Len(buf) : EnteredAtStart(r, buf[i])
                     /\ \A i \in 1..(k - 1) : OnNoRoadLaneAfter(buf[i])]_vars
\* A call that entered a transfer into a lane and then raised for a transfer
\* at a coordinate where no lane of the road starts.
C18_Witness ==
    /\ phase = "aborted"
    /\ \E r \in Roads :
          /\ \E l \in RoadLanesOf(r) : road_lanes[l] # {}
          /\ \A x \in Roads \ {r} : \A l \in RoadLanesOf(x) : road_lanes[l] = {}

\* A step of f.step_vehicles: f has not stepped yet in this phase and is the
\* facility that steps.
StepOf(f) ==
    /\ Turn(f, "step_vehicles")
    /\ (f \in done' \/ done \cup {f} = Facilities)
\* The sections that leave the lanes of road r in the step, with their lane.
Leaving(r) ==
    UNION {{<<l, p>> : p \in road_lanes[l] \ road_lanes'[l]} : l \in RoadLanesOf(r)}
\* C19: in a step of Road.step_vehicles the transfers added to the buffer of
\* the road's downstream object are the sections that left the road's lanes,
\* each once and at the end coordinate of its lane, and no other buffer and
\* no other lane changes.
C19_RoadStepConserves ==
    [][\A r \in Roads : StepOf(r) =>
        LET old == entering_vehicle_buffer
            new == SubSeq(entering_vehicle_buffer', Len(old) + 1,
                          Len(entering_vehicle_buffer'))
        IN  /\ Len(entering_vehicle_buffer') >= Len(old)
            /\ SubSeq(entering_vehicle_buffer', 1, Len(old)) = old
            /\ Leaving(r) # {} => link[r].downstream = "I"
            /\ Len(new) = Cardinality(Leaving(r))
            /\ \A x \in Leaving(r) :
                  Cardinality({i \in DOMAIN new :
                      new[i] = [vehicle |-> x[2][1], section |-> x[2][2],
                                pos |-> RoadLaneInfo[x[1]].end_coord]}) = 1
            /\ road_buffer' = road_buffer
            /\ lanes' = lanes
            /\ \A l \in RoadLaneIds \ RoadLanesOf(r) : road_lanes'[l] = road_lanes[l]]_vars
\* The approach road has stepped and handed the intersection sections from
\* both of its lanes.
C19_Witness ==
    /\ phase \in {"step_vehicles", "process_transfers"}
    /\ "U" \in done \/ phase = "process_transfers"
    /\ \E i, j \in DOMAIN entering_vehicle_buffer :
          /\ entering_vehicle_buffer[i].pos = "a1"
          /\ entering_vehicle_buffer[j].pos = "a2"

\* C20: Road.connect_downstream(d) completes without error, records d as
\* the road's downstream, and calls connect_downstream_intersection on every
\* lane of the road exactly when d is an Intersection.
C20_ConnectDownstreamCompletes ==
    sp_call.op = "connect_downstream"
    => /\ sp_call.result.kind = "ok"
       /\ link["U"].downstream \in {"I", "remover"}
       /\ sp_call.result.value =
             IF link["U"].downstream = "I"
             THEN SelectSeq(RoadLaneSeq, LAMBDA l : RoadLaneInfo[l].road = "U")
             ELSE <<>>

\* The arguments of the last constructor call with the other manager type.
OtherManager(a) ==
    [a EXCEPT !.manager_type = IF @ = "DummyManager"
                               THEN "LaneChangeManager" ELSE "DummyManager"]
\* C21: the Road constructor never raises "Sum of regions longer than
\* trajectory.": when the regions sum to more than trajectory.length the
\* length check's condition holds for every manager type, and the call has
\* raised at that check or at an earlier one; and for region lengths that
\* are not negative the length check, and so the constructor's outcome, is
\* the same for a DummyManager as for any other manager type.
C21_FinalCheckUnreachable ==
    ctor.result # "none"
    => /\ ctor.result # "Sum of regions longer than trajectory."
       /\ (ctor.args.len_entrance_region + ctor.args.len_approach_region
              > ctor.args.length)
          => /\ LengthCheckFails(ctor.args)
             /\ LengthCheckFails(OtherManager(ctor.args))
             /\ ctor.result \in
                   {"Must have more than one lane.",
                    "Need lane_offset if there's more than one lane.",
                    "lane_offset_angle must be between [0,360) deg",
                    "Road is not long enough for the region lengths specified."}
       /\ (ctor.args.len_entrance_region >= 0 /\ ctor.args.len_approach_region >= 0)
          => /\ LengthCheckFails(ctor.args) <=> LengthCheckFails(OtherManager(ctor.args))
             /\ ctor.result = RoadInit(OtherManager(ctor.args))
\* A call for a manager that is not the DummyManager, with valid lanes and
\* width, each region within the trajectory and their sum beyond it: the
\* length check raised, on its second condition alone.
C21_Witness ==
    /\ ctor.result = "Road is not long enough for the region lengths specified."
    /\ ctor.args.manager_type = "LaneChangeManager"
    /\ ctor.args.num_lanes = 2
    /\ ctor.args.lane_offset_angle = <<0>>
    /\ ctor.args.lane_width > 0
    /\ ctor.args.len_entrance_region >= 0
    /\ ctor.args.len_approach_region >= 0
    /\ ctor.args.length >= MaxOf(ctor.args.len_entrance_region,
                                 ctor.args.len_approach_region)
    /\ ctor.args.len_entrance_region + ctor.args.len_approach_region
          > ctor.args.length

====
